---- MODULE Spec2Model ----
(***************************************************************************)
(* A model of pyroomacoustics/datasets/base.py: Meta (metadata with        *)
(* match), SampleBase (payload + Meta) and CorpusBase (sample list,        *)
(* frequency index `info`, add_sample, add_sample_matching, filter,        *)
(* __getitem__, __len__).                                                  *)
(*                                                                         *)
(* Python objects are references.  Sample objects live in `heap` and are   *)
(* named by their position in it; corpus objects live in the store         *)
(* `corpora` and are named by the variable the caller binds them to.       *)
(* Exceptions are modelled as outcomes ("AttributeError", "IndexError").   *)
(***************************************************************************)
EXTENDS Integers, Sequences, FiniteSets, TLC

VARIABLES
    corpora,    \* the CorpusBase objects alive: name -> [samples, info]
    ret         \* the last call made by the caller: its arguments and outcome

vars == <<corpora, ret>>

----------------------------------------------------------------------------
(* Bounds *)

\* the longest sample list a corpus is grown to
MaxLen == 2

\* the largest number of keyword arguments passed to Meta.match
MaxCrit == 2

\* the longest list given as the value of one keyword argument
MaxListLen == 2

----------------------------------------------------------------------------
(* Metadata *)

\* metadata field names used by the callers
Fields == {"speaker", "sex"}

\* the values each field takes
FieldValues == [speaker |-> {"alice", "bob"}, sex |-> {"female", "male"}]

\* names that __getattribute__ resolves on every Meta object because the
\* class defines them (match, as_dict, __str__, __repr__); one stands for all
ClassAttrs == {"as_dict"}

\* what __getattribute__ returns for a name the class defines
BoundMethod == "<bound method>"

\* Meta.__init__: every keyword argument becomes an attribute of the object
Meta(attr) ==
    [key \in DOMAIN attr |-> attr[key]]

\* every Meta object over Fields: each field absent or set to one of its values
Metas ==
    UNION { { m \in [D -> UNION {FieldValues[f] : f \in Fields}] :
                \A f \in D : m[f] \in FieldValues[f] } : D \in SUBSET Fields }

\* self.__getattribute__(key) succeeds: instance attribute or class attribute
hasattr(meta, key) ==
    key \in DOMAIN meta \/ key \in ClassAttrs

\* self.__getattribute__(key): the instance attribute shadows the class one
getattribute(meta, key) ==
    IF key \in DOMAIN meta THEN meta[key] ELSE BoundMethod

\* a keyword argument value: a string, or a list of strings
Str(v) == [type |-> "str", val |-> v]
List(l) == [type |-> "list", items |-> l]

\* Python's attr != val for a string attr: a string never equals a list
ne(attr, val) ==
    IF val.type = "list" THEN TRUE ELSE attr # val.val

\* Python's isinstance(val, list) and attr in val
in_list(attr, val) ==
    val.type = "list" /\ \E i \in 1..Len(val.items) : val.items[i] = attr

\* Meta.match without the list test: every criterion is compared by
\* equality only
RECURSIVE match_no_list(_, _)
match_no_list(meta, kwargs) ==
    IF kwargs = <<>> THEN "True"
    ELSE LET key == Head(kwargs)[1]
             val == Head(kwargs)[2]
         IN  IF ~hasattr(meta, key) THEN "AttributeError"
             ELSE IF ne(getattribute(meta, key), val) THEN "False"
             ELSE match_no_list(meta, Tail(kwargs))

\* Meta.match(**kwargs): kwargs is the ordered sequence of <<key, value>>
\* pairs; the outcome is "True", "False" or "AttributeError"
RECURSIVE match(_, _)
match(meta, kwargs) ==
    IF kwargs = <<>> THEN "True"
    ELSE LET key == Head(kwargs)[1]
             val == Head(kwargs)[2]
         IN  IF ~hasattr(meta, key) THEN "AttributeError"
             ELSE LET attr == getattribute(meta, key)
                  IN  IF ne(attr, val) /\ ~in_list(attr, val) THEN "False"
                      ELSE match(meta, Tail(kwargs))

----------------------------------------------------------------------------
(* Inputs *)

\* the values a caller passes for one key
CritValues(key) ==
    IF key \in Fields THEN FieldValues[key] ELSE {"alice"}

CritLists(key) ==
    IF key \in Fields
    THEN UNION { [1..n -> FieldValues[key]] : n \in 0..MaxListLen }
    ELSE {}

CritPairs ==
    UNION { { <<key, Str(v)>> : v \in CritValues(key) }
            \cup { <<key, List(l)>> : l \in CritLists(key) }
          : key \in Fields \cup ClassAttrs }

\* keyword arguments: ordered, no key twice
Criteria ==
    UNION { { kw \in [1..n -> CritPairs] :
                \A i, j \in 1..n : i # j => kw[i][1] # kw[j][1] }
          : n \in 0..MaxCrit }

\* the keyword arguments given to the corpus operations: none, one value,
\* a list of values, and two criteria
CorpusCriteria ==
    { <<>>,
      << <<"sex", Str("male")>> >>,
      << <<"sex", List(<<"female", "male">>)>> >>,
      << <<"speaker", Str("bob")>> >>,
      << <<"speaker", List(<<"alice">>)>> >>,
      << <<"speaker", Str("bob")>>, <<"sex", Str("male")>> >> }

----------------------------------------------------------------------------
(* Samples *)

\* SampleBase.__init__
SampleBase(data, kwargs) ==
    [data |-> data, meta |-> Meta(kwargs)]

\* the sample objects the caller has constructed; the third carries no
\* `sex` field
heap ==
    << SampleBase("0.99", [speaker |-> "alice", sex |-> "female"]),
       SampleBase("1.02", [speaker |-> "bob", sex |-> "male"]),
       SampleBase("2.07", [speaker |-> "bob"]) >>

SampleIds == DOMAIN heap

----------------------------------------------------------------------------
(* CorpusBase *)

\* the names the caller binds corpus objects to: the corpus it builds, and
\* the corpus the last filter call returned
CorpusNames == {"corpus", "new_corpus"}

\* CorpusBase.__init__
CorpusBase ==
    [samples |-> <<>>, info |-> <<>>]

\* the loop of add_sample with the count never incremented after the first
RECURSIVE tally_no_increment(_, _, _)
tally_no_increment(info, meta, keys) ==
    IF keys = {} THEN info
    ELSE LET key == CHOOSE k \in keys : TRUE
             val == meta[key]
             i1 == IF key \notin DOMAIN info THEN info @@ (key :> <<>>) ELSE info
             i2 == IF val \notin DOMAIN i1[key]
                   THEN [i1 EXCEPT ![key] = @ @@ (val :> 1)]
                   ELSE i1
         IN  tally_no_increment(i2, meta, keys \ {key})

\* the loop of add_sample with a new value's count started at 0
RECURSIVE tally_from_zero(_, _, _)
tally_from_zero(info, meta, keys) ==
    IF keys = {} THEN info
    ELSE LET key == CHOOSE k \in keys : TRUE
             val == meta[key]
             i1 == IF key \notin DOMAIN info THEN info @@ (key :> <<>>) ELSE info
             i2 == IF val \notin DOMAIN i1[key]
                   THEN [i1 EXCEPT ![key] = @ @@ (val :> 0)]
                   ELSE [i1 EXCEPT ![key][val] = @ + 1]
         IN  tally_from_zero(i2, meta, keys \ {key})

\* the loop of add_sample over the items of sample.meta.__dict__ still to
\* visit (keys): create the field's dictionary if absent, then set the
\* value's count to 1 or increment it
RECURSIVE tally(_, _, _)
tally(info, meta, keys) ==
    IF keys = {} THEN info
    ELSE LET key == CHOOSE k \in keys : TRUE
             val == meta[key]
             i1 == IF key \notin DOMAIN info THEN info @@ (key :> <<>>) ELSE info
             i2 == IF val \notin DOMAIN i1[key]
                   THEN [i1 EXCEPT ![key] = @ @@ (val :> 1)]
                   ELSE [i1 EXCEPT ![key][val] = @ + 1]
         IN  tally(i2, meta, keys \ {key})

\* add_sample inserting the sample at the front of the list
add_sample_prepend(cs, self, sample) ==
    [cs EXCEPT ![self] =
        [samples |-> <<sample>> \o @.samples,
         info |-> tally(@.info, heap[sample].meta, DOMAIN heap[sample].meta)]]

\* add_sample on a class whose samples and info are class attributes, shared
\* by every corpus object
add_sample_shared(cs, self, sample) ==
    [c \in DOMAIN cs |->
        [samples |-> Append(cs[c].samples, sample),
         info |-> tally(cs[c].info, heap[sample].meta, DOMAIN heap[sample].meta)]]

\* CorpusBase.add_sample(sample) on the corpus object named self of the
\* store cs: the index update, then the append
add_sample(cs, self, sample) ==
    [cs EXCEPT ![self] =
        [samples |-> Append(@.samples, sample),
         info |-> tally(@.info, heap[sample].meta, DOMAIN heap[sample].meta)]]

\* add_sample_matching adding the sample before the match is evaluated
add_sample_matching_eager(cs, self, sample, kwargs) ==
    LET m == match(heap[sample].meta, kwargs)
    IN  [out |-> IF m = "AttributeError" THEN "AttributeError" ELSE "None",
         cs |-> add_sample(cs, self, sample)]

\* CorpusBase.add_sample_matching(sample, **kwargs): the outcome ("None", or
\* the "AttributeError" that match raised) and the store after the call
add_sample_matching(cs, self, sample, kwargs) ==
    LET m == match(heap[sample].meta, kwargs)
    IN  IF m = "AttributeError" THEN [out |-> "AttributeError", cs |-> cs]
        ELSE IF m = "True" THEN [out |-> "None", cs |-> add_sample(cs, self, sample)]
        ELSE [out |-> "None", cs |-> cs]

\* the loop of filter: add_sample_matching on the corpus named target for
\* every sample of todo in order, ended by the first error
RECURSIVE filter_loop(_, _, _, _)
filter_loop(cs, target, todo, kwargs) ==
    IF todo = <<>> THEN [out |-> "new_corpus", cs |-> cs]
    ELSE LET r == add_sample_matching(cs, target, Head(todo), kwargs)
         IN  IF r.out = "AttributeError" THEN r
             ELSE filter_loop(r.cs, target, Tail(todo), kwargs)

\* the sequence s reversed
RECURSIVE reversed(_)
reversed(s) ==
    IF s = <<>> THEN <<>> ELSE Append(reversed(Tail(s)), Head(s))

\* filter scanning the samples from the last to the first
filter_reversed(cs, self, kwargs) ==
    filter_loop(cs @@ ("local" :> CorpusBase), "local",
                reversed(cs[self].samples), kwargs)

\* filter that, besides building the new corpus, removes from the source the
\* samples it did not select
filter_in_place(cs, self, kwargs) ==
    LET r == filter_loop(cs @@ ("local" :> CorpusBase), "local",
                         cs[self].samples, kwargs)
    IN  [out |-> r.out, cs |-> [r.cs EXCEPT ![self] = r.cs["local"]]]

\* CorpusBase.filter(**kwargs) on the corpus named self: the new corpus is
\* the local variable "local" of the call; the outcome is "new_corpus" (the
\* local is returned) or "AttributeError"
filter(cs, self, kwargs) ==
    filter_loop(cs @@ ("local" :> CorpusBase), "local", cs[self].samples, kwargs)

\* CorpusBase.__len__
len(cs, self) ==
    Len(cs[self].samples)

\* the index keys: an integer, or a slice start:stop whose ends may be None
IntKey(i) == [type |-> "int", i |-> i]
SliceKey(start, stop) == [type |-> "slice", start |-> start, stop |-> stop]
None == <<>>
Some(i) == <<i>>

\* how list.__getitem__ turns one end of a slice into a position of a list
\* of length n: None is the default, a negative end counts from the end,
\* and the result is clipped to 0..n
adjust(end, n, default) ==
    IF end = None THEN default
    ELSE LET i == end[1]
         IN  IF i < 0 THEN (IF i + n < 0 THEN 0 ELSE i + n)
             ELSE IF i > n THEN n ELSE i

\* __getitem__ that raises IndexError for a slice reaching outside the list
getitem_strict(cs, self, r) ==
    LET samples == cs[self].samples
        n == Len(samples)
    IN  IF r.type = "int"
        THEN IF r.i >= n \/ r.i < -n THEN [out |-> "IndexError"]
             ELSE [out |-> "sample",
                   val |-> samples[(IF r.i < 0 THEN r.i + n ELSE r.i) + 1]]
        ELSE IF (r.start # None /\ (r.start[1] > n \/ r.start[1] < -n))
                \/ (r.stop # None /\ (r.stop[1] > n \/ r.stop[1] < -n))
             THEN [out |-> "IndexError"]
             ELSE [out |-> "list",
                   val |-> SubSeq(samples, adjust(r.start, n, 0) + 1,
                                  adjust(r.stop, n, n))]

\* CorpusBase.__getitem__(r) = self.samples[r], Python's list indexing: the
\* outcome is "sample" (val is the sample), "list" (val is the list of
\* samples) or "IndexError"
getitem(cs, self, r) ==
    LET samples == cs[self].samples
        n == Len(samples)
    IN  IF r.type = "int"
        THEN IF r.i >= n \/ r.i < -n THEN [out |-> "IndexError"]
             ELSE [out |-> "sample",
                   val |-> samples[(IF r.i < 0 THEN r.i + n ELSE r.i) + 1]]
        ELSE [out |-> "list",
              val |-> SubSeq(samples, adjust(r.start, n, 0) + 1,
                             adjust(r.stop, n, n))]

\* the positions and slice ends the caller asks for
Positions == (0 - (MaxLen + 1))..(MaxLen + 1)

Ends == {None} \cup { Some(i) : i \in Positions }

Keys ==
    { IntKey(i) : i \in Positions }
    \cup { SliceKey(a, b) : a \in Ends, b \in Ends }

----------------------------------------------------------------------------
(* The calls *)

Init ==
    /\ corpora = ("corpus" :> CorpusBase)
    /\ ret = [op |-> "init"]

\* corpus.add_sample(sample)
AddSample(self, sample) ==
    /\ self \in DOMAIN corpora
    /\ Len(corpora[self].samples) < MaxLen
    /\ corpora' = add_sample(corpora, self, sample)
    /\ ret' = [op |-> "add_sample", self |-> self, sample |-> sample,
               out |-> "None"]

\* corpus.add_sample_matching(sample, **kwargs)
AddSampleMatching(self, sample, kwargs) ==
    /\ self \in DOMAIN corpora
    /\ Len(corpora[self].samples) < MaxLen
    /\ LET r == add_sample_matching(corpora, self, sample, kwargs)
       IN  /\ corpora' = r.cs
           /\ ret' = [op |-> "add_sample_matching", self |-> self,
                      sample |-> sample, kwargs |-> kwargs, out |-> r.out]

\* new_corpus = corpus.filter(**kwargs): when filter returns, the caller
\* binds the result to new_corpus; when it raises, the local corpus is lost
Filter(self, kwargs) ==
    /\ self \in DOMAIN corpora
    /\ LET r == filter(corpora, self, kwargs)
       IN  /\ corpora' =
                IF r.out = "AttributeError"
                THEN [c \in DOMAIN corpora |-> r.cs[c]]
                ELSE [c \in DOMAIN corpora \cup {"new_corpus"} |->
                        IF c = "new_corpus" THEN r.cs["local"] ELSE r.cs[c]]
           /\ ret' = [op |-> "filter", self |-> self, kwargs |-> kwargs,
                      out |-> r.out]

\* corpus[r]
GetItem(self, r) ==
    /\ self \in DOMAIN corpora
    /\ LET g == getitem(corpora, self, r)
       IN  ret' = [op |-> "getitem", self |-> self, key |-> r, res |-> g]
    /\ UNCHANGED corpora

\* len(corpus)
LenOp(self) ==
    /\ self \in DOMAIN corpora
    /\ ret' = [op |-> "len", self |-> self, val |-> len(corpora, self)]
    /\ UNCHANGED corpora

\* meta.match(**kwargs), for the Meta object and the keyword arguments the
\* caller has prepared
Match ==
    /\ ret.op = "call_match"
    /\ ret' = [op |-> "match", meta |-> ret.meta, kwargs |-> ret.kwargs,
               out |-> match(ret.meta, ret.kwargs)]
    /\ UNCHANGED corpora

\* building and filtering corpora
Next ==
    \E self \in CorpusNames :
        \/ \E sample \in SampleIds : AddSample(self, sample)
        \/ \E sample \in SampleIds, kwargs \in CorpusCriteria :
              AddSampleMatching(self, sample, kwargs)
        \/ \E kwargs \in CorpusCriteria : Filter(self, kwargs)

Spec == Init /\ [][Next]_vars

\* building one corpus and reading it
NextAccess ==
    \/ \E sample \in SampleIds : AddSample("corpus", sample)
    \/ \E r \in Keys : GetItem("corpus", r)
    \/ LenOp("corpus")

SpecAccess == Init /\ [][NextAccess]_vars

\* matching Meta objects: the caller prepares any Meta object and any
\* keyword arguments, then calls match
InitMatch ==
    /\ corpora = ("corpus" :> CorpusBase)
    /\ ret \in { [op |-> "call_match", meta |-> Meta(attr), kwargs |-> kwargs] :
                   attr \in Metas, kwargs \in Criteria }

NextMatch ==
    Match

SpecMatch == InitMatch /\ [][NextMatch]_vars

----------------------------------------------------------------------------
(* Properties *)

\* the metadata of the sample object at position i of a sample list
MetaAt(samples, i) == heap[samples[i]].meta

\* the positions of a sample list whose sample carries field f
Carriers(samples, f) ==
    { i \in DOMAIN samples : f \in DOMAIN MetaAt(samples, i) }

\* the number of samples of a list whose metadata has f = v
Count(samples, f, v) ==
    Cardinality({ i \in Carriers(samples, f) : MetaAt(samples, i)[f] = v })

\* the sum of the counts a field's dictionary holds for the values in S
RECURSIVE SumOver(_, _)
SumOver(counts, S) ==
    IF S = {} THEN 0
    ELSE LET v == CHOOSE x \in S : TRUE
         IN  counts[v] + SumOver(counts, S \ {v})

\* C1: in every reachable state and for every corpus alive (the one built
\* by the caller or one returned by filter), info is exactly the tally of
\* the corpus's samples: its fields are the fields some sample carries, a
\* field's values are the values some sample has for it, and info[f][v] is
\* the number of samples with f = v.
C1_InfoIsTally ==
    \A c \in DOMAIN corpora :
        LET samples == corpora[c].samples
            info == corpora[c].info
        IN  /\ DOMAIN info = UNION { DOMAIN MetaAt(samples, i) : i \in DOMAIN samples }
            /\ \A f \in DOMAIN info :
                /\ DOMAIN info[f] =
                      { MetaAt(samples, i)[f] : i \in Carriers(samples, f) }
                /\ \A v \in DOMAIN info[f] : info[f][v] = Count(samples, f, v)

\* C1 witness: a filtered corpus holding two samples that share a value
C1_Witness ==
    /\ "new_corpus" \in DOMAIN corpora
    /\ Len(corpora["new_corpus"].samples) = 2
    /\ \E f \in DOMAIN corpora["new_corpus"].info :
          \E v \in DOMAIN corpora["new_corpus"].info[f] :
              corpora["new_corpus"].info[f][v] = 2

\* C2 as stated: for every corpus and every field f of its info, the counts
\* info[f] holds add up to the length of the corpus.
C2_SumIsLen ==
    \A c \in DOMAIN corpora :
        \A f \in DOMAIN corpora[c].info :
            SumOver(corpora[c].info[f], DOMAIN corpora[c].info[f])
                = len(corpora, c)

\* C2 as amended: for every corpus and every field f of its info, the counts
\* info[f] holds add up to the number of samples that carry f, which is the
\* length of the corpus when every sample carries f and less otherwise.
C2_SumIsCarriers ==
    \A c \in DOMAIN corpora :
        \A f \in DOMAIN corpora[c].info :
            LET sum == SumOver(corpora[c].info[f], DOMAIN corpora[c].info[f])
                carriers == Carriers(corpora[c].samples, f)
            IN  /\ sum = Cardinality(carriers)
                /\ sum <= len(corpora, c)
                /\ carriers = DOMAIN corpora[c].samples => sum = len(corpora, c)

\* C2 witness: a corpus of two samples of which one only carries `sex`
C2_Witness ==
    /\ ret.op = "add_sample"
    /\ len(corpora, "corpus") = 2
    /\ "sex" \in DOMAIN corpora["corpus"].info
    /\ Cardinality(Carriers(corpora["corpus"].samples, "sex")) = 1

\* the samples of a list that match the keyword arguments, in order
Matching(samples, kwargs) ==
    LET Test(s) == match(heap[s].meta, kwargs) = "True"
    IN  SelectSeq(samples, Test)

\* C3: whenever filter returns, the corpus it returns holds exactly the
\* samples of the source for which match is true, in the source's order,
\* and is no longer than the source.
C3_FilterIsMatchingSubsequence ==
    [][ (ret'.op = "filter" /\ ret'.out = "new_corpus") =>
          /\ corpora'["new_corpus"].samples
                = Matching(corpora[ret'.self].samples, ret'.kwargs)
          /\ len(corpora', "new_corpus") <= Len(corpora[ret'.self].samples)
      ]_vars

\* C3 witness: a filter of a two-sample corpus that kept one sample
C3_Witness ==
    /\ ret.op = "filter"
    /\ ret.out = "new_corpus"
    /\ ret.self = "corpus"
    /\ len(corpora, "corpus") = 2
    /\ len(corpora, "new_corpus") = 1

\* the keys of the keyword arguments
KeysOf(kwargs) == { kwargs[i][1] : i \in DOMAIN kwargs }

\* C4: match raises a lookup error whenever some key of the keyword
\* arguments is not a field of the metadata object, whatever the other
\* criteria are.
C4_UnknownKeyRaises ==
    (ret.op = "match" /\ \E key \in KeysOf(ret.kwargs) : key \notin DOMAIN ret.meta)
        => ret.out = "AttributeError"

\* one criterion is satisfied: the field's value equals the criterion value,
\* or the criterion value is a list that contains it
Satisfied(meta, pair) ==
    LET key == pair[1]
        val == pair[2]
    IN  \/ val.type = "str" /\ meta[key] = val.val
        \/ val.type = "list" /\ meta[key] \in { val.items[j] : j \in DOMAIN val.items }

\* C5: when every key of the keyword arguments is a field of the object,
\* match returns true if and only if every criterion is satisfied (and false
\* otherwise), the fields the criteria do not name do not affect the result,
\* and no criteria at all yield true.
C5_MatchIffAllSatisfied ==
    (ret.op = "match" /\ KeysOf(ret.kwargs) \subseteq DOMAIN ret.meta) =>
        /\ ret.out \in {"True", "False"}
        /\ ret.out = "True" <=>
              \A i \in DOMAIN ret.kwargs : Satisfied(ret.meta, ret.kwargs[i])
        /\ \A other \in Metas :
              (/\ KeysOf(ret.kwargs) \subseteq DOMAIN other
               /\ \A key \in KeysOf(ret.kwargs) : other[key] = ret.meta[key])
                  => match(other, ret.kwargs) = ret.out
        /\ ret.kwargs = <<>> => ret.out = "True"

\* C5 witness: a match on two criteria, one of them a list of two values,
\* that returned true
C5_Witness ==
    /\ ret.op = "match"
    /\ ret.out = "True"
    /\ Len(ret.kwargs) = 2
    /\ \E i \in DOMAIN ret.kwargs :
          /\ ret.kwargs[i][2].type = "list"
          /\ Len(ret.kwargs[i][2].items) = 2
          /\ ret.kwargs[i][2].items[1] # ret.meta[ret.kwargs[i][1]]

\* C6: filter leaves the corpus it is called on, and every other corpus it
\* does not rebind, as it was, whether it returns or raises part-way; when
\* it raises no corpus appears.  The last conjunct is the source as the call
\* leaves it, before the caller binds the result (which may replace it).
C6_FilterKeepsSource ==
    [][ ret'.op = "filter" =>
          /\ \A c \in DOMAIN corpora :
                (c # "new_corpus" \/ ret'.out = "AttributeError")
                    => (c \in DOMAIN corpora' /\ corpora'[c] = corpora[c])
          /\ ret'.out = "AttributeError" => DOMAIN corpora' = DOMAIN corpora
          /\ filter(corpora, ret'.self, ret'.kwargs).cs[ret'.self]
                = corpora[ret'.self]
      ]_vars

\* C6 witness: a filter that raised at the second sample, after the first
\* had matched
C6_Witness ==
    /\ ret.op = "filter"
    /\ ret.out = "AttributeError"
    /\ ret.self = "corpus"
    /\ len(corpora, "corpus") = 2
    /\ match(MetaAt(corpora["corpus"].samples, 1), ret.kwargs) = "True"

\* C7: add_sample_matching does what add_sample does when match is true,
\* changes nothing when match is false, and when match raises it raises the
\* same error and changes nothing.
C7_AddSampleMatching ==
    [][ ret'.op = "add_sample_matching" =>
          LET m == match(heap[ret'.sample].meta, ret'.kwargs)
          IN  /\ m = "True" =>
                    /\ corpora' = add_sample(corpora, ret'.self, ret'.sample)
                    /\ ret'.out = "None"
              /\ m = "False" => (corpora' = corpora /\ ret'.out = "None")
              /\ m = "AttributeError" =>
                    (corpora' = corpora /\ ret'.out = "AttributeError")
      ]_vars

\* C7 witness: add_sample_matching raised on a corpus that holds a sample
C7_Witness ==
    /\ ret.op = "add_sample_matching"
    /\ ret.out = "AttributeError"
    /\ len(corpora, ret.self) >= 1

\* a position, or a part of a slice, lies beyond the sample count n
Beyond(r, n) ==
    IF r.type = "int" THEN r.i >= n
    ELSE /\ r.stop # None
         /\ r.stop[1] > n
         /\ (IF r.start = None THEN 0 ELSE r.start[1]) >= 0
         /\ (IF r.start = None THEN 0 ELSE r.start[1]) < r.stop[1]

\* C8 as stated: corpus[r] fails with an out-of-range error whenever the
\* position, or a part of the slice, lies beyond the sample count.
C8_BeyondLengthRaises ==
    (ret.op = "getitem" /\ Beyond(ret.key, len(corpora, ret.self)))
        => ret.res.out = "IndexError"

\* the position an end of a slice stands for, before clipping: None is the
\* default, a negative end counts from the end of the list
EndPosition(end, n, default) ==
    IF end = None THEN default
    ELSE IF end[1] < 0 THEN end[1] + n ELSE end[1]

\* the samples at the positions of 0..n-1 that lie in lo..hi-1, in order
Clipped(samples, lo, hi) ==
    LET Inside(p) == lo <= p /\ p < hi
        picked == SelectSeq([k \in 1..Len(samples) |-> k - 1], Inside)
    IN  [k \in 1..Len(picked) |-> samples[picked[k] + 1]]

\* C8 as amended: corpus[i] for an integer i fails with an out-of-range
\* error exactly when i >= len or i < -len, and otherwise returns the sample
\* at position i (counted from the end when i is negative); corpus[a:b]
\* never fails and returns, in order, the samples at the requested positions
\* that lie inside the current length.
C8_GetItemClipsSlices ==
    ret.op = "getitem" =>
        LET samples == corpora[ret.self].samples
            n == Len(samples)
            r == ret.key
        IN  IF r.type = "int"
            THEN /\ ret.res.out = "IndexError" <=> (r.i >= n \/ r.i < 0 - n)
                 /\ ret.res.out # "IndexError" =>
                       /\ ret.res.out = "sample"
                       /\ ret.res.val = samples[(IF r.i < 0 THEN r.i + n ELSE r.i) + 1]
            ELSE /\ ret.res.out = "list"
                 /\ ret.res.val = Clipped(samples, EndPosition(r.start, n, 0),
                                          EndPosition(r.stop, n, n))

\* C8 witness: a slice reaching beyond the length returned a sample
C8_Witness ==
    /\ ret.op = "getitem"
    /\ ret.key.type = "slice"
    /\ ret.key.stop # None
    /\ ret.key.stop[1] > len(corpora, ret.self)
    /\ ret.res.out = "list"
    /\ Len(ret.res.val) >= 1

\* C9: add_sample makes the corpus one longer, the added sample object is
\* at the last position, and every earlier position holds what it held.
C9_AppendKeepsOrder ==
    [][ ret'.op = "add_sample" =>
          LET c == ret'.self
              n == len(corpora, c)
          IN  /\ len(corpora', c) = n + 1
              /\ getitem(corpora', c, IntKey(n))
                    = [out |-> "sample", val |-> ret'.sample]
              /\ heap[getitem(corpora', c, IntKey(n)).val] = heap[ret'.sample]
              /\ \A i \in 0..(n - 1) :
                    getitem(corpora', c, IntKey(i)) = getitem(corpora, c, IntKey(i))
      ]_vars

\* C9 witness: the same sample added a second time, after another one
C9_Witness ==
    /\ ret.op = "add_sample"
    /\ len(corpora, "corpus") >= 2
    /\ \E i \in 1..(len(corpora, "corpus") - 1) :
          corpora["corpus"].samples[i] = ret.sample
    /\ \/ len(corpora, "corpus") = 2
       \/ \E i \in 1..(len(corpora, "corpus") - 1) :
             corpora["corpus"].samples[i] # ret.sample

\* the sample objects of a sample list
Objects(samples) == { samples[i] : i \in DOMAIN samples }

\* C10: add_sample and add_sample_matching change no corpus but the one
\* they are called on, and the samples of the corpus filter returns are
\* sample objects of the source.
C10_CorporaIndependent ==
    [][ /\ ret'.op \in {"add_sample", "add_sample_matching"} =>
              \A c \in DOMAIN corpora \ {ret'.self} :
                  c \in DOMAIN corpora' /\ corpora'[c] = corpora[c]
        /\ (ret'.op = "filter" /\ ret'.out = "new_corpus") =>
              Objects(corpora'["new_corpus"].samples)
                  \subseteq Objects(corpora[ret'.self].samples)
      ]_vars

\* C10 witness: a sample was added to the filtered corpus while the source
\* holds other samples and shares one with it
C10_Witness ==
    /\ ret.op \in {"add_sample", "add_sample_matching"}
    /\ ret.self = "new_corpus"
    /\ len(corpora, "new_corpus") = 2
    /\ corpora["new_corpus"].samples[2] = ret.sample
    /\ corpora["corpus"] # corpora["new_corpus"]
    /\ corpora["new_corpus"].samples[1] \in Objects(corpora["corpus"].samples)

====
